---------------------------- MODULE Spec2Model ----------------------------
(***************************************************************************)
(* A model of shogun's Restricted Boltzmann Machine                        *)
(* (src/src/shogun/neuralnets/RBM.cpp): the visible-group registry, the    *)
(* batch-sized chain state, Gibbs sampling, contrastive divergence and the *)
(* mini-batch trainer.                                                     *)
(*                                                                         *)
(* float64_t values are modelled in fixed point: the integer x stands for  *)
(* x/ONE.  Sums are exact, products and quotients are rounded down to the  *)
(* grid, and exp / sigmoid are rounded to the nearest grid point.  A draw  *)
(* of the random engine is a nondeterministic choice.                      *)
(***************************************************************************)
EXTENDS Integers, Sequences, FiniteSets, TLC

-----------------------------------------------------------------------------
(* Bounds of the model *)

MaxGroups == 3
MaxGroupSize == 2
MaxHidden == 2
MaxBatch == 2
MaxGibbsSteps == 2
MaxCDSteps == 2

-----------------------------------------------------------------------------
(* Fixed-point arithmetic standing for float64_t *)

\* the literal 1.0
ONE == 4

Mul(a, b) == (a * b) \div ONE

\* 1.0 / (1.0 + std::exp(-1.0 * x)), rounded to the nearest multiple of 1/ONE
Sigmoid(x) ==
    IF x >= 8 THEN 4
    ELSE IF x >= 3 THEN 3
    ELSE IF x >= -2 THEN 2
    ELSE IF x >= -7 THEN 1
    ELSE 0

\* std::exp(d) for d <= 0, rounded to the nearest multiple of 1/ONE
Exp(d) ==
    IF d >= 0 THEN 4
    ELSE IF d = -1 THEN 3
    ELSE IF d >= -3 THEN 2
    ELSE IF d >= -8 THEN 1
    ELSE 0

\* m_prng, the random engine: a full-period congruential generator standing
\* for the engine RandomMixin holds.  Its state after construction ranges
\* over every state.
EngineStates == 0 .. 3

Advance(g) == (5 * g + 3) % 4

\* the engine state after n draws from state g
RECURSIVE Skip(_, _)
Skip(g, n) == IF n = 0 THEN g ELSE Skip(Advance(g), n - 1)

\* the n-th value m_uniform_prob(m_prng) returns from state g, n >= 1: a
\* value of [0, 1) on the grid
Draw(g, n) == Skip(g, n)

\* the n-th value uniform_int_dist(0, 1) returns from state g, n >= 1
DrawInt(g, n) == Skip(g, n) \div 2

RECURSIVE SumOver(_, _)
SumOver(S, f) ==
    IF S = {} THEN 0
    ELSE LET x == CHOOSE y \in S : TRUE
         IN f[x] + SumOver(S \ {x}, f)

-----------------------------------------------------------------------------
(* SGVector / SGMatrix: flat storage, 0-based, matrices column-major *)

Range(n) == 0 .. (n - 1)

SGVector(n, val) == [k \in Range(n) |-> val]

SGMatrix(rows, cols, val) ==
    [num_rows |-> rows, num_cols |-> cols,
     matrix |-> [k \in Range(rows * cols) |-> val]]

\* element (i, j) of m: matrix[j*num_rows + i]
Elem(m, i, j) == m.matrix[j * m.num_rows + i]

\* the matrix whose element (i, j) is f[i, j]
MatrixOf(rows, cols, f(_, _)) ==
    [num_rows |-> rows, num_cols |-> cols,
     matrix |-> [k \in Range(rows * cols) |-> f(k % rows, k \div rows)]]

EmptyMatrix == SGMatrix(0, 0, 0)

\* element k of a std::vector kept as a sequence
At(vec, k) == vec[k + 1]

-----------------------------------------------------------------------------
(* The state *)

VARIABLES
    \* the visible-group registry and the layer sizes
    m_num_hidden, m_num_visible, m_num_visible_groups,
    m_visible_group_sizes, m_visible_group_types, m_visible_state_offsets,
    \* the parameter store
    m_num_params, m_params,
    \* the chain state and the random engine
    m_batch_size, hidden_state, visible_state, m_prng,
    \* the hyperparameters
    cd_num_steps, cd_persistent, cd_sample_visible,
    l2_coefficient, l1_coefficient,
    monitoring_method, monitoring_interval,
    gd_mini_batch_size, max_num_epochs,
    gd_learning_rate, gd_learning_rate_decay, gd_momentum,
    \* train(): where it stands and its locals
    pc, inputs, training_set_size, gradients, param_updates, alpha,
    epoch, j, counter,
    \* history: the number of add_visible_group calls made so far; the last
    \* call (its name, arguments and outcome), the number of random draws it
    \* consumed, the steps it ran in order, and what it observed on the way
    groups_added, call, draws, trace, obs,
    \* history: the mini-batch size as the caller last set it, and the number
    \* of train calls made so far
    mini_batch_size, train_calls

registry == <<m_num_visible, m_num_visible_groups, m_visible_group_sizes,
              m_visible_group_types, m_visible_state_offsets>>
store == <<m_num_params, m_params>>
chain == <<m_batch_size, hidden_state, visible_state, m_prng>>
cd_hyper == <<cd_num_steps, cd_persistent, cd_sample_visible,
              l2_coefficient, l1_coefficient>>
gd_hyper == <<monitoring_method, monitoring_interval, max_num_epochs,
              gd_learning_rate, gd_learning_rate_decay, gd_momentum>>
locals == <<pc, inputs, training_set_size, gradients, param_updates, alpha,
            epoch, j, counter>>

vars == <<m_num_hidden, registry, store, chain, cd_hyper, gd_hyper,
          gd_mini_batch_size, locals, groups_added, call, draws, trace,
          obs, mini_batch_size, train_calls>>

UnitTypes == {"RBMVUT_BINARY", "RBMVUT_SOFTMAX", "RBMVUT_GAUSSIAN"}

NoCall == [op |-> "none"]

-----------------------------------------------------------------------------
(* RBM::init and the constructors *)

\* RBM::init(): the defaults of the contrastive-divergence settings
init_cd ==
    /\ cd_num_steps = 1
    /\ cd_persistent = TRUE
    /\ cd_sample_visible = FALSE
    /\ l2_coefficient = 0
    /\ l1_coefficient = 0

\* RBM::init(): the defaults of the gradient-descent settings
init_gd ==
    /\ monitoring_method = "RBMMM_RECONSTRUCTION_ERROR"
    /\ monitoring_interval = 10
    /\ gd_mini_batch_size = 0
    /\ mini_batch_size = 0
    /\ max_num_epochs = 1
    \* 0.1, 1.0 and 0.9 on the grid (0.1 kept positive)
    /\ gd_learning_rate = 1
    /\ gd_learning_rate_decay = ONE
    /\ gd_momentum = ONE

\* RBM::init(): no visible group yet
init_groups ==
    /\ m_num_visible = 0
    /\ m_num_visible_groups = 0
    /\ m_visible_group_sizes = <<>>
    /\ m_visible_group_types = <<>>
    /\ m_visible_state_offsets = <<>>

\* RBM::init(): no parameters yet
init_params ==
    /\ m_num_params = 0
    /\ m_params = <<>>

\* RBM::init(): batch size 0; the state matrices are default-constructed and
\* the engine is seeded
init_chain ==
    /\ m_batch_size = 0
    /\ hidden_state = EmptyMatrix
    /\ visible_state = EmptyMatrix
    /\ m_prng \in EngineStates

\* train() is not running
Idle ==
    /\ pc = "idle"
    /\ inputs = EmptyMatrix
    /\ training_set_size = 0
    /\ gradients = <<>>
    /\ param_updates = <<>>
    /\ alpha = 0
    /\ epoch = 0
    /\ j = 0
    /\ counter = 0

NoObs == [at |-> "none"]

NoHistory ==
    /\ call = NoCall
    /\ draws = 0
    /\ trace = <<>>
    /\ obs = NoObs
    /\ train_calls = 0

-----------------------------------------------------------------------------
(* The visible-group registry *)

\* an offset that adds the size of the new group, not of the one before it
NewOffsetSlip(offsets, sizes) ==
    LET n == Len(offsets)
    IN IF n = 0 THEN 0 ELSE At(offsets, n - 1) + At(sizes, n)

\* the offset add_visible_group records for the new group, sizes being the
\* group sizes with the new one already appended
NewOffset(offsets, sizes) ==
    LET n == Len(offsets)
    IN IF n = 0 THEN 0 ELSE At(offsets, n - 1) + At(sizes, n - 1)

\* RBM::add_visible_group(num_units, unit_type)
add_visible_group(num_units, unit_type) ==
    /\ pc = "idle"
    /\ m_num_visible_groups < MaxGroups
    /\ m_num_visible_groups' = m_num_visible_groups + 1
    /\ m_num_visible' = m_num_visible + num_units
    /\ m_visible_group_sizes' = Append(m_visible_group_sizes, num_units)
    /\ m_visible_group_types' = Append(m_visible_group_types, unit_type)
    /\ m_visible_state_offsets' =
           Append(m_visible_state_offsets,
                  NewOffset(m_visible_state_offsets, m_visible_group_sizes'))
    /\ call' = [op |-> "add_visible_group", num_units |-> num_units,
                unit_type |-> unit_type, outcome |-> "ok"]
    /\ draws' = 0
    /\ trace' = <<>>
    /\ obs' = NoObs
    /\ groups_added' = groups_added + 1
    /\ UNCHANGED <<m_num_hidden, store, chain, cd_hyper, gd_hyper,
                   gd_mini_batch_size, locals, mini_batch_size, train_calls>>

AddVisibleGroup ==
    \E num_units \in 1 .. MaxGroupSize, unit_type \in UnitTypes :
        add_visible_group(num_units, unit_type)

\* RBM::RBM() and RBM::RBM(num_hidden)
RBM(num_hidden) ==
    /\ init_cd
    /\ init_gd
    /\ init_groups
    /\ init_params
    /\ init_chain
    /\ m_num_hidden = num_hidden

\* a freshly constructed model, to which groups are then added
InitRegistry ==
    /\ \E num_hidden \in 0 .. MaxHidden : RBM(num_hidden)
    /\ Idle
    /\ NoHistory
    /\ groups_added = 0

NextRegistry == AddVisibleGroup

SpecRegistry == InitRegistry /\ [][NextRegistry]_vars


-----------------------------------------------------------------------------
(* The parameter store: views into a parameter-shaped vector p *)

\* get_weights(p)(h, v): the num_hidden x num_visible matrix at p + num_visible
get_weights(p, h, v) == p[m_num_visible + v * m_num_hidden + h]

\* get_hidden_bias(p)[h]: at p + num_visible + num_visible*num_hidden
get_hidden_bias(p, h) ==
    p[m_num_visible + m_num_visible * m_num_hidden + h]

\* get_visible_bias(p)[v]: at p
get_visible_bias(p, v) == p[v]

\* the indices of a parameter-shaped vector each view covers
WeightsIndices ==
    {m_num_visible + k : k \in Range(m_num_hidden * m_num_visible)}
HiddenBiasIndices ==
    {m_num_visible + m_num_visible * m_num_hidden + k :
        k \in Range(m_num_hidden)}
VisibleBiasIndices == Range(m_num_visible)

-----------------------------------------------------------------------------
(* The inference engine *)

\* the group a visible row belongs to
GroupOf(row) ==
    CHOOSE k \in Range(m_num_visible_groups) :
        /\ At(m_visible_state_offsets, k) <= row
        /\ row < At(m_visible_state_offsets, k) + At(m_visible_group_sizes, k)

\* the rows of visible group k
GroupRows(k) ==
    {At(m_visible_state_offsets, k) + i :
        i \in Range(At(m_visible_group_sizes, k))}

\* RBM::mean_hidden(visible, result) under parameters p: the new result
mean_hidden(p, visible) ==
    MatrixOf(m_num_hidden, visible.num_cols,
        LAMBDA h, c :
            Sigmoid(get_hidden_bias(p, h)
                + SumOver(Range(m_num_visible),
                      [v \in Range(m_num_visible) |->
                          Mul(get_weights(p, h, v), Elem(visible, v, c))])))

\* V = B + W^T * H, the activation of visible unit v in column c
VisibleActivation(p, hidden, v, c) ==
    get_visible_bias(p, v)
        + SumOver(Range(m_num_hidden),
              [h \in Range(m_num_hidden) |->
                  Mul(get_weights(p, h, v), Elem(hidden, h, c))])

Max(S) == CHOOSE x \in S : \A y \in S : y <= x

\* the softmax of group k in column c at row v.  The code shifts every
\* activation by one maximum and normalises in the log domain; the shift
\* cancels, and it is taken here per column so that the rounded sum stays
\* positive.
Softmax(p, hidden, k, v, c) ==
    LET act(r) == VisibleActivation(p, hidden, r, c)
        mx == Max({act(r) : r \in GroupRows(k)})
        sum == SumOver(GroupRows(k),
                   [r \in GroupRows(k) |-> Exp(act(r) - mx)])
    IN (Exp(act(v) - mx) * ONE) \div sum

\* RBM::mean_visible(hidden, result) under parameters p: the new result
mean_visible(p, hidden) ==
    MatrixOf(m_num_visible, hidden.num_cols,
        LAMBDA v, c :
            LET k == GroupOf(v)
                type == At(m_visible_group_types, k)
            IN IF type = "RBMVUT_BINARY"
                   THEN Sigmoid(VisibleActivation(p, hidden, v, c))
               ELSE IF type = "RBMVUT_SOFTMAX"
                   THEN Softmax(p, hidden, k, v, c)
               ELSE VisibleActivation(p, hidden, v, c))

\* the flat indices of the rows of group k in an m_num_visible-row matrix
GroupCells(k, m) ==
    {c * m.num_rows + r : r \in GroupRows(k), c \in Range(m.num_cols)}

\* m with the cells in `cells` replaced by what pick gives them
Overwrite(m, cells, pick) ==
    [m EXCEPT !.matrix =
        [k \in DOMAIN m.matrix |-> IF k \in cells THEN pick[k] ELSE m.matrix[k]]]

\* a comparison as the float64_t it is stored as
AsFloat(bool) == IF bool THEN ONE ELSE 0

\* RBM::sample_hidden(mean, result) with the engine in state g, result
\* aliasing mean: result[i] = m_uniform_prob(m_prng) < mean[i]
sample_hidden(mean, g) ==
    [mean EXCEPT !.matrix =
        [i \in DOMAIN mean.matrix |-> AsFloat(Draw(g, i + 1) < mean.matrix[i])]]

\* sample_visible on a Binary group: for each unit i and column c, in that
\* order, result(i+offset, c) = m_uniform_prob(m_prng) < mean(i+offset, c)
SampleBinary(index, m, g) ==
    LET offset == At(m_visible_state_offsets, index)
    IN Overwrite(m, GroupCells(index, m),
           [k \in GroupCells(index, m) |->
               LET i == (k % m.num_rows) - offset
                   c == k \div m.num_rows
               IN AsFloat(Draw(g, i * m.num_cols + c + 1) < m.matrix[k])])

\* the inner loop of sample_visible on a Softmax group, from row i of the group
\* on, in column c with draw r: the first row at which the running sum of
\* mean reaches r is set to 1
RECURSIVE SoftmaxPick(_, _, _, _, _, _)
SoftmaxPick(index, m, c, r, i, sum) ==
    IF i >= At(m_visible_group_sizes, index) THEN m
    ELSE LET row == At(m_visible_state_offsets, index) + i
             s == sum + Elem(m, row, c)
         IN IF r <= s
            THEN Overwrite(m, {c * m.num_rows + row},
                           [k \in {c * m.num_rows + row} |-> ONE])
            ELSE SoftmaxPick(index, m, c, r, i + 1, s)

\* the column loop of sample_visible on a Softmax group, from column c on:
\* uniform_int_dist(0, 1) draws r = 0 or r = 1 for each column
RECURSIVE SoftmaxColumns(_, _, _, _)
SoftmaxColumns(index, m, c, g) ==
    IF c >= m.num_cols THEN m
    ELSE SoftmaxColumns(index,
             SoftmaxPick(index, m, c, DrawInt(g, c + 1) * ONE, 0, 0),
             c + 1, g)

\* sample_visible on a Softmax group.  Every caller passes visible_state as
\* both mean and result, so the group's means are zeroed before they are
\* summed; the sums are read from the zeroed matrix, as the code reads them.
SampleSoftmax(index, m, g) ==
    LET cells == GroupCells(index, m)
    IN SoftmaxColumns(index, Overwrite(m, cells, [k \in cells |-> 0]), 0, g)

\* RBM::sample_visible(index, mean, result) with the engine in state g,
\* result aliasing mean.  A Gaussian group is left as it is.
sample_visible(index, m, g) ==
    LET type == At(m_visible_group_types, index)
    IN IF type = "RBMVUT_BINARY" THEN SampleBinary(index, m, g)
       ELSE IF type = "RBMVUT_SOFTMAX" THEN SampleSoftmax(index, m, g)
       ELSE m

\* the number of draws sample_visible(index, ...) consumes on cols columns
VisibleDraws(index, cols) ==
    LET type == At(m_visible_group_types, index)
    IN IF type = "RBMVUT_BINARY" THEN At(m_visible_group_sizes, index) * cols
       ELSE IF type = "RBMVUT_SOFTMAX" THEN cols
       ELSE 0

-----------------------------------------------------------------------------
(* The chain while a handler runs: batch size b, hidden state h, visible    *)
(* state v, engine state g, the draws consumed so far d and the steps run   *)
(* so far t                                                                 *)

Chain(b, h, v, g, d, t) ==
    [b |-> b, h |-> h, v |-> v, g |-> g, d |-> d, t |-> t]

CurrentChain ==
    Chain(m_batch_size, hidden_state, visible_state, m_prng, 0, <<>>)

\* n draws were made
Drawn(cs, n) == [cs EXCEPT !.g = Skip(@, n), !.d = @ + n]

\* what freshly allocated storage may hold
FreshValues == {0, ONE}

Fresh(rows, cols) == {SGMatrix(rows, cols, val) : val \in FreshValues}

\* RBM::reset_chain(): for each row i and column c, in that order,
\* visible_state(i, c) = m_uniform_prob(m_prng) > 0.5
reset_chain(rows, cols, g) ==
    MatrixOf(rows, cols,
        LAMBDA i, c : AsFloat(Draw(g, i * cols + c + 1) > ONE \div 2))

\* set_batch_size past its early return
Resize(cs, batch_size) ==
    {Drawn([cs EXCEPT !.b = batch_size, !.h = h,
                      !.v = reset_chain(m_num_visible, batch_size, cs.g),
                      !.t = Append(@, "reset_chain")],
           m_num_visible * batch_size) :
        h \in Fresh(m_num_hidden, batch_size)}

\* set_batch_size without its early return
SetBatchSizeAlways(cs, batch_size) == Resize(cs, batch_size)

\* RBM::set_batch_size(batch_size) on chain cs: the chains it can leave
SetBatchSize(cs, batch_size) ==
    IF cs.b = batch_size THEN {cs} ELSE Resize(cs, batch_size)

\* mean_hidden(from, hidden_state)
DoMeanHidden(p, cs, from) ==
    [cs EXCEPT !.h = mean_hidden(p, from), !.t = Append(@, "mean_hidden")]

\* sample_hidden(hidden_state, hidden_state)
DoSampleHidden(cs) ==
    Drawn([cs EXCEPT !.h = sample_hidden(cs.h, cs.g),
                     !.t = Append(@, "sample_hidden")],
          cs.h.num_rows * cs.h.num_cols)

\* mean_visible(hidden_state, visible_state)
DoMeanVisible(p, cs) ==
    [cs EXCEPT !.v = mean_visible(p, cs.h), !.t = Append(@, "mean_visible")]

\* sample_visible(k, visible_state, visible_state)
DoSampleVisibleGroup(cs, k) ==
    Drawn([cs EXCEPT !.v = sample_visible(k, cs.v, cs.g),
                     !.t = Append(@, "sample_visible")],
          VisibleDraws(k, cs.b))

\* for (k = from; k < m_num_visible_groups; k++) if (k is not skipped)
\*     sample_visible(k, visible_state, visible_state)
RECURSIVE DoSampleVisible(_, _, _)
DoSampleVisible(cs, from, skipped) ==
    IF from >= m_num_visible_groups THEN cs
    ELSE IF from \in skipped THEN DoSampleVisible(cs, from + 1, skipped)
    ELSE DoSampleVisible(DoSampleVisibleGroup(cs, from), from + 1, skipped)

\* a loop that samples the visible units in its last iteration too
RECURSIVE SampleLoopAll(_, _, _, _)
SampleLoopAll(p, cs, i, num_gibbs_steps) ==
    IF i >= num_gibbs_steps THEN cs
    ELSE LET c1 == DoMeanVisible(p, DoSampleHidden(DoMeanHidden(p, cs, cs.v)))
         IN SampleLoopAll(p, DoSampleVisible(c1, 0, {}), i + 1,
                          num_gibbs_steps)

\* the loop of RBM::sample from iteration i on
RECURSIVE SampleLoop(_, _, _, _)
SampleLoop(p, cs, i, num_gibbs_steps) ==
    IF i >= num_gibbs_steps THEN cs
    ELSE LET c1 == DoMeanVisible(p, DoSampleHidden(DoMeanHidden(p, cs, cs.v)))
             c2 == IF i < num_gibbs_steps - 1
                   THEN DoSampleVisible(c1, 0, {}) ELSE c1
         IN SampleLoop(p, c2, i + 1, num_gibbs_steps)

\* RBM::sample(num_gibbs_steps, batch_size): the chains it can leave
Sample(p, cs, num_gibbs_steps, batch_size) ==
    {SampleLoop(p, c0, 0, num_gibbs_steps) :
        c0 \in SetBatchSize(cs, batch_size)}

\* the rows of group `index` of m, as a matrix of their own
GroupMatrix(m, index) ==
    MatrixOf(At(m_visible_group_sizes, index), m.num_cols,
        LAMBDA i, c : Elem(m, i + At(m_visible_state_offsets, index), c))

\* the clamp without the group's offset
ClampAtZero(cs, E, evidence_matrix) ==
    [cs EXCEPT !.v = MatrixOf(cs.v.num_rows, cs.v.num_cols,
            LAMBDA r, c :
                IF r < At(m_visible_group_sizes, E)
                THEN Elem(evidence_matrix, r, c)
                ELSE Elem(cs.v, r, c)),
                  !.t = Append(@, "clamp")]

\* visible_state(i + offset, j) = evidence_matrix(i, j) for group E
Clamp(cs, E, evidence_matrix) ==
    LET offset == At(m_visible_state_offsets, E)
    IN [cs EXCEPT !.v = MatrixOf(cs.v.num_rows, cs.v.num_cols,
            LAMBDA r, c :
                IF r \in GroupRows(E)
                THEN Elem(evidence_matrix, r - offset, c)
                ELSE Elem(cs.v, r, c)),
                  !.t = Append(@, "clamp")]

\* the loop of RBM::sample_with_evidence from iteration n on
RECURSIVE EvidenceLoop(_, _, _, _, _, _)
EvidenceLoop(p, cs, E, evidence_matrix, n, num_gibbs_steps) ==
    IF n >= num_gibbs_steps THEN cs
    ELSE LET c1 == DoMeanVisible(p, DoSampleHidden(DoMeanHidden(p, cs, cs.v)))
             c2 == IF n < num_gibbs_steps - 1
                   THEN DoSampleVisible(c1, 0, {E}) ELSE c1
         IN EvidenceLoop(p, Clamp(c2, E, evidence_matrix), E, evidence_matrix,
                         n + 1, num_gibbs_steps)

\* RBM::sample_with_evidence(E, evidence, num_gibbs_steps) for a group index
\* the tables hold: the chains it can leave
SampleWithEvidence(p, cs, E, evidence_matrix, num_gibbs_steps) ==
    {EvidenceLoop(p, Clamp(c0, E, evidence_matrix), E, evidence_matrix,
                  0, num_gibbs_steps) :
        c0 \in SetBatchSize(cs, evidence_matrix.num_cols)}

-----------------------------------------------------------------------------
(* The energy / gradient engine *)

\* the sum over the columns of f(c)
ColumnSum(cols, f(_)) == SumOver(Range(cols), [c \in Range(cols) |-> f(c)])

\* RBM::free_energy_gradients(visible, gradients, positive_phase,
\* hidden_mean_given_visible) at batch size b: the new gradients.  WG, BG
\* and CG are the get_weights, get_visible_bias and get_hidden_bias views.
free_energy_gradients(b, visible, grad, positive_phase, PH) ==
    LET cols == visible.num_cols
        nw == m_num_visible * m_num_hidden
        WG(h, v) == ColumnSum(cols,
                        LAMBDA c : Mul(Elem(PH, h, c), Elem(visible, v, c)))
        BG(v) == ColumnSum(cols, LAMBDA c : Elem(visible, v, c))
        CG(h) == ColumnSum(cols, LAMBDA c : Elem(PH, h, c))
        term(k) ==
            IF k < m_num_visible THEN BG(k)
            ELSE IF k < m_num_visible + nw
                THEN WG((k - m_num_visible) % m_num_hidden,
                        (k - m_num_visible) \div m_num_hidden)
            ELSE CG(k - m_num_visible - nw)
    IN [k \in Range(m_num_params) |->
           IF positive_phase THEN (-1 * term(k)) \div b
           ELSE grad[k] + term(k) \div b]

\* the gradient entries the regularization loops of contrastive_divergence
\* write: gradients[i + m_num_visible + m_num_hidden], i < len
RegularizedIndices ==
    {i + m_num_visible + m_num_hidden :
        i \in Range(m_num_hidden * m_num_visible)}

\* the regularization step of contrastive_divergence under parameters p
Regularize(grad, p) ==
    [k \in DOMAIN grad |->
        IF k \in RegularizedIndices
        THEN grad[k]
               + (IF l2_coefficient > 0 THEN Mul(l2_coefficient, p[k]) ELSE 0)
               + (IF l1_coefficient > 0 THEN Mul(l1_coefficient, p[k]) ELSE 0)
        ELSE grad[k]]

\* a sampling loop that recomputes the hidden means from the chain in every
\* iteration
CDHiddenAlways(p, cs, i) == DoMeanHidden(p, cs, cs.v)

\* the head of iteration i of the sampling loop of contrastive_divergence:
\* if (i>0 || cd_persistent) mean_hidden(visible_state, hidden_state)
CDHidden(p, cs, i) ==
    IF i > 0 \/ cd_persistent THEN DoMeanHidden(p, cs, cs.v) ELSE cs

\* the sampling loop of contrastive_divergence from iteration i on
RECURSIVE CDLoop(_, _, _)
CDLoop(p, cs, i) ==
    IF i >= cd_num_steps THEN cs
    ELSE LET c1 == CDHidden(p, cs, i)
             c2 == DoMeanVisible(p, DoSampleHidden(c1))
             c3 == IF cd_sample_visible THEN DoSampleVisible(c2, 0, {}) ELSE c2
         IN CDLoop(p, c3, i + 1)

\* RBM::contrastive_divergence(visible_batch, gradients) under parameters p:
\* the chains it can leave, each with the gradients before and after the
\* regularization step, the visible state the sampling loop started from
\* and the hidden state its first sample_hidden was given
ContrastiveDivergence(p, cs, visible_batch) ==
    {LET pos == DoMeanHidden(p, c0, visible_batch)
         g1 == free_energy_gradients(c0.b, visible_batch, <<>>, TRUE, pos.h)
         neg == DoMeanHidden(p, CDLoop(p, pos, 0), CDLoop(p, pos, 0).v)
         g2 == free_energy_gradients(c0.b, neg.v, g1, FALSE, neg.h)
     IN [chain |-> neg, start |-> c0.v, unregularized |-> g2,
         gradients |-> Regularize(g2, p),
         sampled_from |-> IF cd_num_steps > 0 THEN CDHidden(p, pos, 0).h
                          ELSE pos.h] :
        c0 \in SetBatchSize(cs, visible_batch.num_cols)}

\* RBM::reconstruction_error(visible, buffer) under parameters p: the chains
\* it can leave, each with the value returned
ReconstructionError(p, cs, visible) ==
    {LET c2 == DoSampleHidden(DoMeanHidden(p, c0, visible))
         buffer == mean_visible(p, c2.h)
         len == m_num_visible * c0.b
     IN [chain |-> c2,
         result |-> SumOver(Range(len), [k \in Range(len) |->
                        Mul(buffer.matrix[k] - visible.matrix[k],
                            buffer.matrix[k] - visible.matrix[k])])
                    \div c0.b] :
        c0 \in SetBatchSize(cs, visible.num_cols)}

\* the check at the head of pseudo_likelihood, made on the first group only
FirstNotBinary ==
    m_num_visible_groups > 0 /\ At(m_visible_group_types, 0) # "RBMVUT_BINARY"

\* whether the check at the head of pseudo_likelihood raises its error
NotAllBinary ==
    \E k \in Range(m_num_visible_groups) :
        At(m_visible_group_types, k) # "RBMVUT_BINARY"

\* RBM::pseudo_likelihood(visible, buffer) past its check: the chains it can
\* leave.  random::fill_array draws one index per column; each column's
\* entry at its index is flipped (1.0 - x) for the second free energy and
\* flipped back, which leaves visible as it was.
PseudoLikelihood(cs, visible) ==
    {[Drawn(c0, c0.b) EXCEPT !.t = Append(@, "fill_array")] :
        c0 \in SetBatchSize(cs, visible.num_cols)}

-----------------------------------------------------------------------------
(* A model set up for use: groups added, parameters initialized *)

\* the offsets add_visible_group records for groups of these sizes
RECURSIVE Offsets(_)
Offsets(sizes) ==
    IF sizes = <<>> THEN <<>>
    ELSE LET before == Offsets(SubSeq(sizes, 1, Len(sizes) - 1))
         IN Append(before, NewOffset(before, sizes))

\* the registry after add_visible_group(sizes[k], types[k]) for each k
GroupsAdded(sizes, types) ==
    /\ m_num_visible_groups = Len(sizes)
    /\ m_num_visible = SumOver(DOMAIN sizes, sizes)
    /\ m_visible_group_sizes = sizes
    /\ m_visible_group_types = types
    /\ m_visible_state_offsets = Offsets(sizes)
    /\ groups_added = Len(sizes)

\* the models the operations are run on
Models ==
    {[num_hidden |-> 2, sizes |-> <<1>>, types |-> <<"RBMVUT_BINARY">>],
     [num_hidden |-> 1, sizes |-> <<1, 1>>,
      types |-> <<"RBMVUT_BINARY", "RBMVUT_GAUSSIAN">>],
     [num_hidden |-> 1, sizes |-> <<2>>, types |-> <<"RBMVUT_SOFTMAX">>]}

\* RBM::initialize_neural_network(sigma): m_params is filled with normal
\* draws; these vectors stand for what it can hold
ParameterFills(n) ==
    {[k \in Range(n) |-> (((3 * k + seed) % 5) - 2) * 2] : seed \in {0}}

initialize_neural_network ==
    /\ m_num_params = m_num_visible + m_num_hidden
                          + m_num_visible * m_num_hidden
    /\ m_params \in ParameterFills(m_num_params)

\* a model after construction, add_visible_group calls and
\* initialize_neural_network
SetUp ==
    /\ \E model \in Models :
          /\ m_num_hidden = model.num_hidden
          /\ GroupsAdded(model.sizes, model.types)
    /\ initialize_neural_network
    /\ init_chain
    /\ Idle
    /\ NoHistory

\* the feature matrices handed to the model: 0/1 patterns, and one of
\* values no unit produces
Patterns == {0, 2}

Data(rows, cols, pattern) ==
    MatrixOf(rows, cols,
        LAMBDA i, c : IF pattern = 2 THEN 2 * ONE + 1 + i
                      ELSE ((i + c + pattern) % 2) * ONE)

-----------------------------------------------------------------------------
(* The operations *)

\* the chain fields and the call's draws and steps are those of chain cs
Commit(cs) ==
    /\ m_batch_size' = cs.b
    /\ hidden_state' = cs.h
    /\ visible_state' = cs.v
    /\ m_prng' = cs.g
    /\ draws' = cs.d
    /\ trace' = cs.t

\* a call that raises its error before it changes anything
Raise(record) ==
    /\ call' = record
    /\ draws' = 0
    /\ trace' = <<>>
    /\ obs' = NoObs
    /\ UNCHANGED chain

Frame == UNCHANGED <<m_num_hidden, registry, store, cd_hyper, gd_hyper,
                     gd_mini_batch_size, locals, groups_added,
                     mini_batch_size, train_calls>>

\* what the bounds check of the sampling operations lets through:
\* require(V < m_num_visible_groups, ...)
Require(index) == index < m_num_visible_groups

\* whether the group tables hold an entry at index
InTables(index) == index \in Range(m_num_visible_groups)

\* the group tables were read at these indices
TablesRead(indices) == [at |-> "group tables", indices |-> indices]

\* RBM::set_batch_size(batch_size)
set_batch_size(batch_size) ==
    /\ pc = "idle"
    /\ \E cs \in SetBatchSize(CurrentChain, batch_size) : Commit(cs)
    /\ call' = [op |-> "set_batch_size", batch_size |-> batch_size,
                outcome |-> "ok"]
    /\ obs' = NoObs
    /\ Frame

\* RBM::sample(num_gibbs_steps, batch_size)
sample(num_gibbs_steps, batch_size) ==
    /\ pc = "idle"
    /\ \E cs \in Sample(m_params, CurrentChain, num_gibbs_steps, batch_size) :
          Commit(cs)
    /\ call' = [op |-> "sample", num_gibbs_steps |-> num_gibbs_steps,
                batch_size |-> batch_size, outcome |-> "ok"]
    /\ obs' = NoObs
    /\ Frame

\* RBM::sample_group(V, num_gibbs_steps, batch_size).  With an index that
\* passes the check and is not in the tables, what follows the read of
\* m_visible_group_sizes[V] is undefined: the call is followed up to it.
sample_group(V, num_gibbs_steps, batch_size) ==
    LET record == [op |-> "sample_group", V |-> V,
                   num_gibbs_steps |-> num_gibbs_steps,
                   batch_size |-> batch_size]
    IN /\ pc = "idle"
       /\ IF ~Require(V)
          THEN Raise(record @@ [outcome |-> "error"])
          ELSE \E cs \in Sample(m_params, CurrentChain, num_gibbs_steps,
                                batch_size) :
                  /\ Commit(cs)
                  /\ obs' = TablesRead({V})
                  /\ call' = IF InTables(V)
                             THEN record @@ [outcome |-> "ok",
                                             result |-> GroupMatrix(cs.v, V)]
                             ELSE record @@ [outcome |-> "undefined"]
       /\ Frame

\* RBM::sample_with_evidence(E, evidence, num_gibbs_steps), from its check
\* on: the chains it can leave, each with the outcome and the indices the
\* group tables were read at.  With an index that passes the check and is
\* not in the tables, what follows the read of m_visible_state_offsets[E]
\* is undefined: the call is followed up to it.
SampleWithEvidenceChecked(p, cs, E, evidence, num_gibbs_steps) ==
    IF ~Require(E)
        THEN {[chain |-> cs, outcome |-> "error", read |-> {}]}
    ELSE IF ~InTables(E)
        THEN {[chain |-> c0, outcome |-> "undefined", read |-> {E}] :
                 c0 \in SetBatchSize(cs, evidence.num_cols)}
    ELSE {[chain |-> c1, outcome |-> "ok", read |-> {E}] :
             c1 \in SampleWithEvidence(p, cs, E, evidence, num_gibbs_steps)}

\* RBM::sample_with_evidence(E, evidence, num_gibbs_steps)
sample_with_evidence(E, evidence, num_gibbs_steps) ==
    LET record == [op |-> "sample_with_evidence", E |-> E,
                   evidence |-> evidence,
                   num_gibbs_steps |-> num_gibbs_steps]
    IN /\ pc = "idle"
       /\ \E out \in SampleWithEvidenceChecked(m_params, CurrentChain, E,
                                               evidence, num_gibbs_steps) :
             IF out.outcome = "error"
             THEN Raise(record @@ [outcome |-> "error"])
             ELSE /\ Commit(out.chain)
                  /\ obs' = TablesRead(out.read)
                  /\ call' = record @@ [outcome |-> out.outcome]
       /\ Frame

\* RBM::sample_group_with_evidence(V, E, evidence, num_gibbs_steps)
sample_group_with_evidence(V, E, evidence, num_gibbs_steps) ==
    LET record == [op |-> "sample_group_with_evidence", V |-> V, E |-> E,
                   evidence |-> evidence,
                   num_gibbs_steps |-> num_gibbs_steps]
    IN /\ pc = "idle"
       /\ IF ~Require(V) \/ ~Require(E)
          THEN Raise(record @@ [outcome |-> "error"])
          ELSE \E out \in SampleWithEvidenceChecked(m_params, CurrentChain, E,
                              evidence, num_gibbs_steps) :
                  /\ Commit(out.chain)
                  /\ IF out.outcome # "ok"
                     THEN /\ obs' = TablesRead(out.read)
                          /\ call' = record @@ [outcome |-> out.outcome]
                     ELSE /\ obs' = TablesRead(out.read \cup {V})
                          /\ call' =
                                 IF InTables(V)
                                 THEN record @@
                                      [outcome |-> "ok",
                                       result |-> GroupMatrix(out.chain.v, V)]
                                 ELSE record @@ [outcome |-> "undefined"]
       /\ Frame

\* RBM::free_energy(visible, buffer): it sets the batch size and reads
\* visible and the parameters; the value it returns is not modelled
free_energy(visible) ==
    /\ pc = "idle"
    /\ \E cs \in SetBatchSize(CurrentChain, visible.num_cols) : Commit(cs)
    /\ call' = [op |-> "free_energy", visible |-> visible, outcome |-> "ok"]
    /\ obs' = NoObs
    /\ Frame

\* RBM::reconstruction_error(visible, buffer)
reconstruction_error(visible) ==
    /\ pc = "idle"
    /\ \E out \in ReconstructionError(m_params, CurrentChain, visible) :
          /\ Commit(out.chain)
          /\ call' = [op |-> "reconstruction_error", visible |-> visible,
                      outcome |-> "ok", result |-> out.result]
    /\ obs' = NoObs
    /\ Frame

\* RBM::pseudo_likelihood(visible, buffer); visible_after is the caller's
\* matrix as the call leaves it; the value it returns is not modelled
pseudo_likelihood(visible) ==
    LET record == [op |-> "pseudo_likelihood", visible |-> visible,
                   visible_after |-> visible]
    IN /\ pc = "idle"
       /\ IF NotAllBinary
          THEN Raise(record @@ [outcome |-> "error"])
          ELSE /\ \E cs \in PseudoLikelihood(CurrentChain, visible) :
                     Commit(cs)
               /\ call' = record @@ [outcome |-> "ok"]
               /\ obs' = NoObs
       /\ Frame

\* RBM::contrastive_divergence(visible_batch, gradients), the caller's
\* gradients vector being returned in the call record
contrastive_divergence(visible_batch) ==
    /\ pc = "idle"
    /\ \E out \in ContrastiveDivergence(m_params, CurrentChain, visible_batch) :
          /\ Commit(out.chain)
          /\ call' = [op |-> "contrastive_divergence",
                      visible_batch |-> visible_batch, outcome |-> "ok",
                      gradients |-> out.gradients]
          /\ obs' = [at |-> "regularization",
                     unregularized |-> out.unregularized,
                     start |-> out.start]
    /\ Frame

BatchSizes == 1 .. MaxBatch
GibbsSteps == 0 .. MaxGibbsSteps
\* group indices: those of the tables, one below and one above
GroupIndices == -1 .. m_num_visible_groups

\* the evidence for group E: one row per unit of the group
Evidence(E) ==
    {Data(IF InTables(E) THEN At(m_visible_group_sizes, E) ELSE 1, b, pattern) :
        b \in BatchSizes, pattern \in Patterns}

Batches == {Data(m_num_visible, b, pattern) :
               b \in BatchSizes, pattern \in Patterns}

SetBatchSizeCall == \E b \in BatchSizes : set_batch_size(b)

SampleCall == \E n \in GibbsSteps, b \in BatchSizes : sample(n, b)

SampleGroupCall ==
    \E V \in GroupIndices, n \in GibbsSteps, b \in BatchSizes :
        sample_group(V, n, b)

SampleWithEvidenceCall ==
    \E E \in GroupIndices, n \in GibbsSteps :
        \E evidence \in Evidence(E) : sample_with_evidence(E, evidence, n)

SampleGroupWithEvidenceCall ==
    \E V \in GroupIndices, E \in GroupIndices, n \in GibbsSteps :
        \E evidence \in Evidence(E) :
            sample_group_with_evidence(V, E, evidence, n)

FreeEnergyCall == \E visible \in Batches : free_energy(visible)

ReconstructionErrorCall ==
    \E visible \in Batches : reconstruction_error(visible)

PseudoLikelihoodCall == \E visible \in Batches : pseudo_likelihood(visible)

ContrastiveDivergenceCall ==
    \E visible_batch \in Batches : contrastive_divergence(visible_batch)

\* a model set up with the default settings of RBM::init
Init ==
    /\ SetUp
    /\ init_cd
    /\ init_gd

\* the operations that take no group index, in any order
Next ==
    \/ SetBatchSizeCall
    \/ SampleCall
    \/ FreeEnergyCall
    \/ ReconstructionErrorCall
    \/ PseudoLikelihoodCall
    \/ ContrastiveDivergenceCall

Spec == Init /\ [][Next]_vars

\* the operations that take group indices
GroupOps == {"sample_group", "sample_with_evidence",
             "sample_group_with_evidence"}

\* one operation that takes group indices, on a chain that is as constructed
\* or as a sample call left it
NextGroups ==
    \/ call.op = "none" /\ SampleCall
    \/ call.op \notin GroupOps /\ SampleGroupCall
    \/ call.op \notin GroupOps /\ SampleWithEvidenceCall
    \/ call.op \notin GroupOps /\ SampleGroupWithEvidenceCall

SpecGroups == Init /\ [][NextGroups]_vars

\* contrastive_divergence under every setting of its hyperparameters
InitCD ==
    /\ SetUp
    /\ cd_num_steps \in 1 .. MaxCDSteps
    /\ cd_persistent \in BOOLEAN
    /\ cd_sample_visible \in BOOLEAN
    /\ l2_coefficient \in {0, ONE}
    /\ l1_coefficient \in {0, ONE \div 2}
    /\ init_gd

NextCD ==
    \/ ContrastiveDivergenceCall
    \/ SetBatchSizeCall

SpecCD == InitCD /\ [][NextCD]_vars

-----------------------------------------------------------------------------
(* RBM::train, one step per mini-batch *)

MaxTrainingSetSize == 3
MaxEpochs == 2

\* SGMatrix(m.matrix + start*m.num_rows, m.num_rows, cols, false): the view
\* of cols columns of m from column start on.  A cell that lies outside the
\* storage of m holds stray.
Columns(m, start, cols, stray) ==
    MatrixOf(m.num_rows, cols,
        LAMBDA i, c : IF start + c \in Range(m.num_cols)
                      THEN Elem(m, i, start + c) ELSE stray)

\* if (gd_mini_batch_size==0) gd_mini_batch_size = training_set_size
MiniBatchSize(size) ==
    IF gd_mini_batch_size = 0 THEN size ELSE gd_mini_batch_size

\* an epoch loop that runs once more than max_num_epochs times
EpochsLeftInclusive == epoch <= max_num_epochs

\* the head of the epoch loop: range(0, max_num_epochs) has an epoch left
EpochsLeft == epoch < max_num_epochs

\* the first column of the mini-batch the loop over j takes at j
WindowStart ==
    IF j + gd_mini_batch_size > training_set_size
    THEN training_set_size - gd_mini_batch_size
    ELSE j

\* the parameters without the momentum step
MomentumSkipped(p, v) == p

\* m_params[k] += gd_momentum*param_updates[k], for every k
MomentumApplied(p, v) ==
    [k \in DOMAIN p |-> p[k] + Mul(gd_momentum, v[k])]

\* param_updates[k] = gd_momentum*param_updates[k] - alpha*gradients[k]
Updates(v, lr, g) ==
    [k \in DOMAIN v |-> Mul(gd_momentum, v[k]) - Mul(lr, g[k])]

\* m_params[k] -= alpha*gradients[k], for every k
Updated(p, lr, g) == [k \in DOMAIN p |-> p[k] - Mul(lr, g[k])]

\* the monitoring call of a mini-batch under parameters p: the chains it can
\* leave, each with the outcome
Monitor(p, cs, inputs_batch) ==
    IF monitoring_method = "RBMMM_RECONSTRUCTION_ERROR"
        THEN {[chain |-> out.chain, outcome |-> "ok"] :
                 out \in ReconstructionError(p, cs, inputs_batch)}
    ELSE IF monitoring_method = "RBMMM_PSEUDO_LIKELIHOOD"
        THEN IF NotAllBinary
             THEN {[chain |-> cs, outcome |-> "error"]}
             ELSE {[chain |-> c1, outcome |-> "ok"] :
                      c1 \in PseudoLikelihood(cs, inputs_batch)}
    ELSE {[chain |-> cs, outcome |-> "ok"]}

\* train() has returned or was aborted: its locals are gone
Left ==
    /\ pc' = "idle"
    /\ inputs' = EmptyMatrix
    /\ training_set_size' = 0
    /\ gradients' = <<>>
    /\ param_updates' = <<>>
    /\ alpha' = 0
    /\ epoch' = 0
    /\ j' = 0
    /\ counter' = 0

FrameTrain == UNCHANGED <<m_num_hidden, registry, m_num_params, cd_hyper,
                          gd_hyper, groups_added, mini_batch_size>>

\* RBM::train(features) up to the epoch loop.  The copy into visible_state
\* takes the first m_batch_size columns of inputs.
train(features) ==
    LET record == [op |-> "train", features |-> features, steps |-> 0,
                   params |-> m_params]
        size == features.num_cols
    IN /\ pc = "idle"
       /\ train_calls' = train_calls + 1
       /\ IF features.num_rows # m_num_visible
          THEN /\ Raise(record @@ [outcome |-> "error"])
               /\ UNCHANGED <<gd_mini_batch_size, locals>>
          ELSE /\ gd_mini_batch_size' = MiniBatchSize(size)
               /\ \E cs \in SetBatchSize(CurrentChain, gd_mini_batch_size'),
                     stray \in FreshValues :
                     Commit([cs EXCEPT !.v = Columns(features, 0, cs.b, stray)])
               /\ pc' = "mini-batch"
               /\ inputs' = features
               /\ training_set_size' = size
               /\ gradients' \in {SGVector(m_num_params, val) :
                                     val \in FreshValues}
               /\ param_updates' = SGVector(m_num_params, 0)
               /\ alpha' = gd_learning_rate
               /\ epoch' = 0
               /\ j' = 0
               /\ counter' = 0
               /\ call' = record @@ [outcome |-> "running"]
               /\ obs' = [at |-> "initial copy", start |-> 0,
                          size |-> m_batch_size',
                          training_set_size |-> size]
       /\ UNCHANGED m_params
       /\ FrameTrain

\* one pass of the loop over j in RBM::train
MiniBatch ==
    /\ pc = "mini-batch"
    /\ EpochsLeft
    /\ LET lr == Mul(gd_learning_rate_decay, alpha)
           start == WindowStart
           seen == MomentumApplied(m_params, param_updates)
           after == start + gd_mini_batch_size
       IN \E stray \in FreshValues :
            LET inputs_batch == Columns(inputs, start, gd_mini_batch_size,
                                        stray)
            IN \E cd \in ContrastiveDivergence(seen, CurrentChain,
                                                inputs_batch) :
                 LET p == Updated(seen, lr, cd.gradients)
                 IN \E out \in (IF counter % monitoring_interval = 0
                                THEN Monitor(p, cd.chain, inputs_batch)
                                ELSE {[chain |-> cd.chain,
                                       outcome |-> "ok"]}) :
                      /\ Commit(out.chain)
                      /\ m_params' = p
                      /\ obs' = [at |-> "mini-batch", start |-> start,
                                 size |-> gd_mini_batch_size,
                                 training_set_size |-> training_set_size,
                                 inputs_batch |-> inputs_batch,
                                 gradients |-> cd.gradients,
                                 chain_start |-> cd.start,
                                 chain_end |-> cd.chain.v,
                                 sampled_from |-> cd.sampled_from]
                      /\ IF out.outcome = "error"
                         THEN /\ Left
                              /\ call' = [call EXCEPT !.outcome = "error",
                                                      !.steps = @ + 1]
                         ELSE /\ alpha' = lr
                              /\ gradients' = cd.gradients
                              /\ param_updates' =
                                     Updates(param_updates, lr, cd.gradients)
                              /\ counter' = counter + 1
                              /\ j' = IF after < training_set_size
                                      THEN after ELSE 0
                              /\ epoch' = IF after < training_set_size
                                          THEN epoch ELSE epoch + 1
                              /\ call' = [call EXCEPT !.steps = @ + 1]
                              /\ UNCHANGED <<pc, inputs, training_set_size>>
    /\ UNCHANGED <<gd_mini_batch_size, train_calls>>
    /\ FrameTrain

\* the epoch loop is over: train() returns
TrainReturn ==
    /\ pc = "mini-batch"
    /\ ~EpochsLeft
    /\ Left
    /\ call' = [call EXCEPT !.outcome = "ok"]
    /\ UNCHANGED <<m_params, chain, draws, trace, obs, gd_mini_batch_size,
                   train_calls>>
    /\ FrameTrain

\* the feature matrices train is called with: one row per visible unit, and
\* one row too many
Features ==
    {Data(m_num_visible, cols, 0) : cols \in 1 .. MaxTrainingSetSize}
        \cup {Data(m_num_visible + 1, 1, 0)}

\* a first train call, and a second one on the same model
TrainCall ==
    /\ train_calls \in {0, 1}
    /\ \E features \in Features : train(features)

\* the gradient-descent settings train is run under: learning rate, decay,
\* momentum, monitoring method and interval
TrainSettings ==
    {[rate |-> ONE, decay |-> ONE, momentum |-> ONE \div 2,
      method |-> "RBMMM_RECONSTRUCTION_ERROR", interval |-> 1],
     [rate |-> 2 * ONE, decay |-> ONE \div 2, momentum |-> ONE,
      method |-> "RBMMM_PSEUDO_LIKELIHOOD", interval |-> 2],
     [rate |-> ONE, decay |-> ONE, momentum |-> 0,
      method |-> "RBMMM_PSEUDO_LIKELIHOOD", interval |-> 10]}

\* a model set up for training: the caller has set the gradient-descent
\* settings, the mini-batch size and the number of epochs
InitTrain ==
    /\ SetUp
    /\ init_cd
    /\ \E setting \in TrainSettings :
          /\ gd_learning_rate = setting.rate
          /\ gd_learning_rate_decay = setting.decay
          /\ gd_momentum = setting.momentum
          /\ monitoring_method = setting.method
          /\ monitoring_interval = setting.interval
    /\ gd_mini_batch_size \in 0 .. MaxBatch
    /\ mini_batch_size = gd_mini_batch_size
    /\ max_num_epochs \in 0 .. MaxEpochs

NextTrain ==
    \/ TrainCall
    \/ MiniBatch
    \/ TrainReturn

SpecTrain == InitTrain /\ [][NextTrain]_vars

-----------------------------------------------------------------------------
(* C6 *)

\* C6: after any sequence of add_visible_group calls on a fresh model,
\* num_visible_groups is the number of calls, the group sizes sum to
\* num_visible, the first offset is 0 and every later offset is the previous
\* offset plus the previous size.
GroupsTile ==
    /\ m_num_visible_groups = groups_added
    /\ Len(m_visible_group_sizes) = m_num_visible_groups
    /\ Len(m_visible_group_types) = m_num_visible_groups
    /\ Len(m_visible_state_offsets) = m_num_visible_groups
    /\ SumOver(DOMAIN m_visible_group_sizes, m_visible_group_sizes)
           = m_num_visible
    /\ \A k \in Range(m_num_visible_groups) :
           At(m_visible_state_offsets, k) =
               IF k = 0 THEN 0
               ELSE At(m_visible_state_offsets, k - 1)
                        + At(m_visible_group_sizes, k - 1)

\* three groups of differing sizes have been added
GroupsTileWitness ==
    /\ m_num_visible_groups = 3
    /\ m_visible_group_sizes = <<2, 1, 2>>
    /\ m_visible_state_offsets = <<0, 2, 3>>

-----------------------------------------------------------------------------
(* C1 *)

CDCalled == call.op = "contrastive_divergence"

\* C1: the regularization step of contrastive_divergence changes only
\* gradient entries of the weight block, the range get_weights(gradients)
\* views: no visible-bias or hidden-bias entry changes, and with
\* l1_coefficient = l2_coefficient = 0 no entry changes at all.
RegularizationOnlyWeights ==
    CDCalled =>
        /\ \A k \in Range(m_num_params) \ WeightsIndices :
               call.gradients[k] = obs.unregularized[k]
        /\ (l1_coefficient = 0 /\ l2_coefficient = 0)
               => call.gradients = obs.unregularized

-----------------------------------------------------------------------------
(* C3 *)

\* C3: sample_group_with_evidence(V, E, evidence, n) with V = E returns the
\* evidence entry for entry, and after sample_with_evidence the rows of
\* group E of the visible state hold the evidence, whatever was drawn.
EvidenceReturned ==
    /\ (call.op = "sample_group_with_evidence" /\ call.outcome = "ok"
            /\ call.V = call.E)
           => call.result = call.evidence
    /\ (call.op \in {"sample_with_evidence", "sample_group_with_evidence"}
            /\ call.outcome = "ok")
           => GroupMatrix(visible_state, call.E) = call.evidence

\* the second group was clamped and returned after two Gibbs steps, in the
\* first of which the other group was sampled
EvidenceReturnedWitness ==
    /\ call.op = "sample_group_with_evidence"
    /\ call.outcome = "ok"
    /\ call.V = 1
    /\ call.E = 1
    /\ call.num_gibbs_steps = 2
    /\ call.evidence.num_cols = 2
    /\ \E k \in DOMAIN trace : trace[k] = "sample_visible"
    /\ visible_state # Data(m_num_visible, 2, 0)
    /\ call.result = call.evidence

-----------------------------------------------------------------------------
(* C4 *)

ChainUnchanged ==
    UNCHANGED <<m_batch_size, hidden_state, visible_state, m_prng>>

\* C4: set_batch_size(b) with b the current batch size changes nothing and
\* draws nothing; with another b it reallocates the hidden state to
\* num_hidden x b and the visible state to num_visible x b and resets the
\* chain, every visible entry being drawn as 0 or 1.  sample, free_energy,
\* reconstruction_error and contrastive_divergence each set the batch size
\* from their argument.
SetBatchSizeContract ==
    [][/\ call'.op = "set_batch_size" =>
            IF call'.batch_size = m_batch_size
            THEN ChainUnchanged /\ draws' = 0 /\ trace' = <<>>
            ELSE /\ m_batch_size' = call'.batch_size
                 /\ hidden_state'.num_rows = m_num_hidden
                 /\ hidden_state'.num_cols = call'.batch_size
                 /\ DOMAIN hidden_state'.matrix
                        = Range(m_num_hidden * call'.batch_size)
                 /\ visible_state'.num_rows = m_num_visible
                 /\ visible_state'.num_cols = call'.batch_size
                 /\ DOMAIN visible_state'.matrix
                        = Range(m_num_visible * call'.batch_size)
                 /\ \A k \in DOMAIN visible_state'.matrix :
                        visible_state'.matrix[k] \in {0, ONE}
                 /\ trace' = <<"reset_chain">>
                 /\ draws' = m_num_visible * call'.batch_size
       /\ call'.op = "sample" => m_batch_size' = call'.batch_size
       /\ call'.op \in {"free_energy", "reconstruction_error"}
              => m_batch_size' = call'.visible.num_cols
       /\ call'.op = "contrastive_divergence"
              => m_batch_size' = call'.visible_batch.num_cols
      ]_vars

\* set_batch_size was called with the current size on a chain that a sample
\* call had left holding means
SetBatchSizeWitness ==
    /\ call.op = "set_batch_size"
    /\ call.batch_size = m_batch_size
    /\ draws = 0
    /\ trace = <<>>
    /\ \E k \in DOMAIN visible_state.matrix :
           visible_state.matrix[k] \notin {0, ONE}

-----------------------------------------------------------------------------
(* C8 *)

\* the group indices the last call was given
IndicesOf(record) ==
    IF record.op = "sample_group" THEN {record.V}
    ELSE IF record.op = "sample_with_evidence" THEN {record.E}
    ELSE IF record.op = "sample_group_with_evidence"
        THEN {record.V, record.E}
    ELSE {}

\* C8: with a group index below 0 or at or above num_visible_groups,
\* sample_group, sample_with_evidence and sample_group_with_evidence raise a
\* fatal error at once: the group tables are not read at that index, and
\* batch size, hidden state and visible state stay as they were.
OutOfBoundsIsFatal ==
    [][(\E index \in IndicesOf(call') : ~InTables(index))
           => /\ call'.outcome = "error"
              /\ obs' = NoObs
              /\ UNCHANGED <<m_batch_size, hidden_state, visible_state>>
      ]_vars

-----------------------------------------------------------------------------
(* C9 *)

\* C9: pseudo_likelihood on a model with a group that is not Binary raises
\* a fatal error and returns nothing, before it changes anything: batch
\* size, hidden and visible state, the input matrix and the random engine
\* are as they were.
PseudoLikelihoodFatal ==
    [][(/\ call'.op = "pseudo_likelihood"
        /\ \E k \in Range(m_num_visible_groups) :
               At(m_visible_group_types, k) # "RBMVUT_BINARY")
           => /\ call'.outcome = "error"
              /\ "result" \notin DOMAIN call'
              /\ ChainUnchanged
              /\ draws' = 0
              /\ call'.visible_after = call'.visible
      ]_vars

\* pseudo_likelihood raised its error on a chain other calls had set up
PseudoLikelihoodFatalWitness ==
    /\ call.op = "pseudo_likelihood"
    /\ call.outcome = "error"
    /\ m_batch_size = 2
    /\ call.visible.num_cols = 1
    /\ \E k \in DOMAIN visible_state.matrix :
           visible_state.matrix[k] \notin {0, ONE}

-----------------------------------------------------------------------------
(* C2 *)

\* what train took its columns from last: the initial copy or a mini-batch
WindowTaken == obs.at \in {"initial copy", "mini-batch"}

\* C2: with a mini-batch size B >= 1 set by the caller and a training set of
\* N >= 1 columns, the initial copy and every mini-batch of train take B
\* consecutive columns from inside the training set: the first column j has
\* 0 <= j and j + B <= N.
WindowInsideTrainingSet ==
    (WindowTaken /\ mini_batch_size >= 1) =>
        /\ obs.size = mini_batch_size
        /\ 0 <= obs.start
        /\ obs.start + obs.size <= obs.training_set_size

-----------------------------------------------------------------------------
(* C5 *)

\* C5: a train call with max_num_epochs = 0 on features of the right height
\* takes no mini-batch step and leaves every parameter as it was before the
\* call, under every mini-batch size and every training setting.
NoEpochsNoUpdates ==
    (call.op = "train" /\ call.outcome \in {"running", "ok"}
        /\ max_num_epochs = 0) =>
        /\ call.steps = 0
        /\ m_params = call.params

\* train has returned under max_num_epochs = 0, on a model that has
\* parameters
NoEpochsNoUpdatesWitness ==
    /\ call.op = "train"
    /\ call.outcome = "ok"
    /\ max_num_epochs = 0
    /\ pc = "idle"
    /\ m_num_params > 0
    /\ call.features.num_rows = m_num_visible

-----------------------------------------------------------------------------
(* C7 *)

\* C7: while the mini-batch size the caller has set is 0, the initial copy
\* and every mini-batch of every train call take all the columns of that
\* call's feature matrix.
FullDatasetWhenZero ==
    (WindowTaken /\ mini_batch_size = 0) =>
        /\ obs.start = 0
        /\ obs.size = obs.training_set_size

-----------------------------------------------------------------------------
(* C10 *)

\* a mini-batch step of train is taken
MiniBatchStep ==
    /\ pc = "mini-batch"
    /\ call'.op = "train"
    /\ call'.steps = call.steps + 1
    /\ call'.outcome = "running"

\* C10: in every mini-batch step of train, with p the parameters and v the
\* velocity before the step and lr the decayed learning rate, the gradient g
\* is the one contrastive_divergence computes under the parameters
\* p + momentum*v, the velocity after the step is momentum*v - lr*g and the
\* parameters after the step are p plus the new velocity; the velocity is
\* zero when train enters its loop.
MomentumUpdate ==
    [][/\ MiniBatchStep =>
            LET p == m_params
                v == param_updates
                lr == Mul(gd_learning_rate_decay, alpha)
                g == obs'.gradients
                ahead == [k \in Range(m_num_params) |->
                             p[k] + Mul(gd_momentum, v[k])]
            IN /\ alpha' = lr
               /\ \E cd \in ContrastiveDivergence(ahead, CurrentChain,
                                                  obs'.inputs_batch) :
                     cd.gradients = g
               /\ param_updates' =
                      [k \in Range(m_num_params) |->
                          Mul(gd_momentum, v[k]) - Mul(lr, g[k])]
               /\ m_params' = [k \in Range(m_num_params) |->
                                  p[k] + param_updates'[k]]
       /\ (pc = "idle" /\ pc' = "mini-batch") =>
            \A k \in Range(m_num_params) : param_updates'[k] = 0]_vars

\* a mini-batch step was taken from a velocity that was not zero, with a
\* momentum and a gradient that moved the parameters
MomentumUpdateWitness ==
    /\ pc = "mini-batch"
    /\ call.steps >= 2
    /\ gd_momentum > 0
    /\ \E k \in Range(m_num_params) :
          /\ param_updates[k] # 0
          /\ Mul(gd_momentum, param_updates[k]) # 0
          /\ Mul(alpha, gradients[k]) # 0

-----------------------------------------------------------------------------
(* C11 *)

\* one train call under every setting of the sampling loop of
\* contrastive_divergence, the engine being in the first of its states
InitTrainCD ==
    /\ SetUp
    /\ m_prng = 0
    /\ cd_num_steps \in 1 .. MaxCDSteps
    /\ cd_persistent \in BOOLEAN
    /\ cd_sample_visible \in BOOLEAN
    /\ l2_coefficient = 0
    /\ l1_coefficient = 0
    /\ \E setting \in TrainSettings :
          /\ gd_learning_rate = setting.rate
          /\ gd_learning_rate_decay = setting.decay
          /\ gd_momentum = setting.momentum
          /\ monitoring_method = setting.method
          /\ monitoring_interval = setting.interval
    /\ gd_mini_batch_size \in 0 .. MaxBatch
    /\ mini_batch_size = gd_mini_batch_size
    /\ max_num_epochs \in 1 .. MaxEpochs

NextTrainCD ==
    \/ train_calls = 0 /\ TrainCall
    \/ MiniBatch
    \/ TrainReturn

SpecTrainCD == InitTrainCD /\ [][NextTrainCD]_vars

\* train runs the contrastive divergence of a mini-batch
GibbsPhaseRun ==
    /\ pc = "mini-batch"
    /\ call'.op = "train"
    /\ call'.steps = call.steps + 1

\* C11: within one train call with cd_num_steps >= 1, in persistent mode the
\* visible state the sampling loop of every mini-batch after the first
\* starts from is the visible state the sampling loop of the mini-batch
\* before it left (the negative phase, the parameter update and the
\* monitoring call in between leave visible_state alone); in non-persistent
\* mode the first sample_hidden of every mini-batch is given the hidden
\* means of that mini-batch's data columns.
ChainCarriedOver ==
    [][GibbsPhaseRun =>
          /\ (cd_persistent /\ call.steps >= 1) =>
                /\ visible_state = obs.chain_end
                /\ obs'.chain_start = obs.chain_end
          /\ ~cd_persistent =>
                obs'.sampled_from =
                    mean_hidden([k \in Range(m_num_params) |->
                                    m_params[k]
                                      + Mul(gd_momentum, param_updates[k])],
                                obs'.inputs_batch)
      ]_vars

\* in persistent mode a mini-batch after the first started its sampling loop
\* from a chain that is not its data, and moved the chain
ChainCarriedOverWitness ==
    /\ call.op = "train"
    /\ call.steps >= 2
    /\ cd_persistent
    /\ obs.at = "mini-batch"
    /\ obs.chain_start # obs.inputs_batch
    /\ obs.chain_end # obs.chain_start

-----------------------------------------------------------------------------
(* C12 *)

\* the sampling operations, each on a chain that is as constructed or as a
\* set_batch_size call left it, under every setting of the sampling loop of
\* contrastive_divergence
InitSteps ==
    /\ SetUp
    /\ cd_num_steps \in 1 .. MaxCDSteps
    /\ cd_persistent \in BOOLEAN
    /\ cd_sample_visible \in BOOLEAN
    /\ l2_coefficient = 0
    /\ l1_coefficient = 0
    /\ init_gd

NextSteps ==
    \/ call.op = "none" /\ SetBatchSizeCall
    \/ call.op \in {"none", "set_batch_size"} /\ SampleCall
    \/ call.op \in {"none", "set_batch_size"} /\ SampleWithEvidenceCall
    \/ call.op \in {"none", "set_batch_size"} /\ ContrastiveDivergenceCall

SpecSteps == InitSteps /\ [][NextSteps]_vars

\* the steps of the last call after the chain reset of set_batch_size, if
\* there was one
StepsRun ==
    IF trace # <<>> /\ trace[1] = "reset_chain" THEN Tail(trace) ELSE trace

Times(step, n) == [k \in 1 .. n |-> step]

\* the steps of num_gibbs_steps Gibbs steps from step i on: mean_hidden,
\* sample_hidden, mean_visible, then sample_visible `sampled` times in every
\* step but the last, then `closing`
RECURSIVE StepsOfLoop(_, _, _, _)
StepsOfLoop(i, num_gibbs_steps, sampled, closing) ==
    IF i >= num_gibbs_steps THEN <<>>
    ELSE <<"mean_hidden", "sample_hidden", "mean_visible">>
           \o (IF i < num_gibbs_steps - 1
               THEN Times("sample_visible", sampled) ELSE <<>>)
           \o closing
           \o StepsOfLoop(i + 1, num_gibbs_steps, sampled, closing)

\* the positions of the trace at which step was run
Positions(step) == {k \in DOMAIN StepsRun : StepsRun[k] = step}

\* a sampling call with at least one Gibbs step has returned
Sampled(op) ==
    /\ call.op = op
    /\ call.outcome = "ok"
    /\ call.num_gibbs_steps >= 1

\* the mean-field values of the last step
MeanField == mean_visible(m_params, hidden_state)

\* in contrastive_divergence every one of the cd_num_steps steps runs
\* sample_visible for every group right after mean_visible when
\* cd_sample_visible is set, and no step runs it otherwise
CDSteps ==
    (call.op = "contrastive_divergence") =>
        /\ Cardinality(Positions("mean_visible")) = cd_num_steps
        /\ IF cd_sample_visible
           THEN /\ Cardinality(Positions("sample_visible")) =
                       cd_num_steps * m_num_visible_groups
                /\ \A k \in Positions("mean_visible") :
                      \A d \in 1 .. m_num_visible_groups :
                          k + d \in Positions("sample_visible")
           ELSE Positions("sample_visible") = {}

\* sample: its steps in order, and the visible state it leaves
SampleSteps ==
    Sampled("sample") =>
        /\ StepsRun = StepsOfLoop(0, call.num_gibbs_steps,
                                  m_num_visible_groups, <<>>)
        /\ visible_state = MeanField

\* every mean_visible comes right after a sample_hidden that comes right
\* after a mean_hidden, and there are n of them
StepsInOrder(n) ==
    /\ Cardinality(Positions("mean_visible")) = n
    /\ \A k \in Positions("mean_visible") :
          /\ k - 1 \in Positions("sample_hidden")
          /\ k - 2 \in Positions("mean_hidden")

\* the mean_visible steps that sample_visible follows
Followed ==
    {k \in Positions("mean_visible") : k + 1 \in Positions("sample_visible")}

\* C12 as stated: in sample and in sample_with_evidence with n >= 1 every
\* Gibbs step runs mean_hidden, sample_hidden, mean_visible in that order,
\* sample_visible follows mean_visible in every step but the last (n-1 times
\* in all) and the visible state left holds the mean-field values of the last
\* step; in contrastive_divergence sample_visible follows mean_visible in
\* every step exactly when cd_sample_visible is set.
GibbsStepsAsStated ==
    /\ \A op \in {"sample", "sample_with_evidence"} :
          Sampled(op) =>
              /\ StepsInOrder(call.num_gibbs_steps)
              /\ Cardinality(Followed) = call.num_gibbs_steps - 1
              /\ Max(Positions("mean_visible")) \notin Followed
              /\ visible_state = MeanField
    /\ CDSteps

\* C12, amended: as stated for sample and for contrastive_divergence; in
\* sample_with_evidence every Gibbs step runs mean_hidden, sample_hidden,
\* mean_visible in that order, then, in every step but the last,
\* sample_visible once for every group other than E, then the clamp of
\* group E, and the visible state left holds the mean-field values of the
\* last step outside the rows of group E and the evidence in them.
GibbsStepsInOrder ==
    /\ SampleSteps
    /\ Sampled("sample_with_evidence") =>
          /\ StepsRun = <<"clamp">>
                \o StepsOfLoop(0, call.num_gibbs_steps,
                               m_num_visible_groups - 1, <<"clamp">>)
          /\ \A r \in Range(m_num_visible), c \in Range(m_batch_size) :
                Elem(visible_state, r, c) =
                    IF r \in GroupRows(call.E)
                    THEN Elem(call.evidence,
                              r - At(m_visible_state_offsets, call.E), c)
                    ELSE Elem(MeanField, r, c)
    /\ CDSteps

\* sample_with_evidence ran two Gibbs steps or more on a model with another
\* group to sample, and left evidence that is not the mean-field values
GibbsStepsInOrderWitness ==
    /\ Sampled("sample_with_evidence")
    /\ call.num_gibbs_steps >= 2
    /\ Positions("sample_visible") # {}
    /\ visible_state # MeanField

=============================================================================
